---------------------------- MODULE Spec2Model ----------------------------
(***************************************************************************)
(* Model of src/src/_pages/Solutions.tsx: the Solutions view of the        *)
(* interview assistant.  The view keeps local React state, listens to the  *)
(* bridge events of the host process (window.electronAPI.on...), reads and *)
(* writes the client-side query cache and renders either the Coding        *)
(* sections or the System Design tabs.  getLayoutedElements, the           *)
(* post-processing of the diagram layout, is modelled as an operator.      *)
(*                                                                         *)
(* JavaScript values are tagged tuples, so that the conversions the code   *)
(* applies to them (x || null, x ?? null, !x, x?.f) are modelled by what   *)
(* they do.  Null stands for both null and undefined: every expression of  *)
(* the component treats the two alike.                                     *)
(***************************************************************************)
EXTENDS Integers, Sequences, FiniteSets, TLC

(***************************************************************************)
(* JavaScript values                                                       *)
(***************************************************************************)
Null == <<"null">>
Str(s) == <<"str", s>>
Arr(a) == <<"arr", a>>
Obj(r) == <<"obj", r>>
\* The query cache holds no query under the key.
Absent == <<"absent">>

IsObj(v) == v[1] = "obj"

\* JavaScript truthiness: null, undefined and "" are falsy, every array and
\* every object is truthy.
Truthy(v) ==
  CASE v[1] = "null" -> FALSE
    [] v[1] = "absent" -> FALSE
    [] v[1] = "str" -> v[2] # ""
    [] OTHER -> TRUE

\* x || null
OrNullAsNullish(v) == IF v[1] \in {"null", "absent"} THEN Null ELSE v
OrNull(v) == IF Truthy(v) THEN v ELSE Null

\* x ?? null
NullishAsOr(v) == IF Truthy(v) THEN v ELSE Null
Nullish(v) == IF v[1] \in {"null", "absent"} THEN Null ELSE v

\* solution?.f : the field f of an object, undefined for anything else
FieldNames == {"code", "thoughts", "time_complexity", "space_complexity"}
Field(v, f) ==
  IF IsObj(v) /\ f \in DOMAIN v[2] THEN v[2][f] ELSE Null

(***************************************************************************)
(* Bounds and the payloads the host pushes                                 *)
(***************************************************************************)
\* Cache notifications that may wait for delivery at the same time.
MaxPending == 1
\* getScreenshots requests that may be in flight at the same time.
MaxFetches == 2

Sol(c, t, tc, sc) ==
  Obj([code |-> c, thoughts |-> t, time_complexity |-> tc, space_complexity |-> sc])

SolFull == Sol(Str("code"), Arr(<<"idea">>), Str("O(n)"), Str("O(1)"))
\* A solution whose fields are empty or missing.
SolEdge == Sol(Str(""), Arr(<<>>), Null, Str(""))

\* data of onSolutionSuccess
\* A payload that carries more than the four fields of a solution.
SolExtra ==
  Obj([code |-> Str("code"), thoughts |-> Arr(<<"idea">>),
       time_complexity |-> Str("O(n)"), space_complexity |-> Str("O(1)"),
       language |-> Str("python")])
SolutionInputs == {Null, Str(""), SolFull, SolEdge, SolExtra}
\* data of onProblemExtracted
ProblemInputs == {Null, Obj([problem_statement |-> "two sum"])}
\* data of onDebugSuccess
DebugInputs == {Obj([new_code |-> "fixed"])}
\* error of onSolutionError
ErrorInputs == {"timeout"}
\* paths of the screenshots the host may hold
Paths == {"shot1"}

TABS == <<"Description", "Requirements", "Diagram", "Database Schema", "Tradeoff">>
TabSet == {TABS[i] : i \in DOMAIN TABS}
\* currentInterviewMode is a string prop: the two modes of the selector and
\* one value that is neither.
Modes == {"Coding", "SystemDesign", "Behavioral"}

QueryKeys == {"problem_statement", "solution", "new_solution"}

VARIABLES
  cache,                          \* the query cache: key -> data or Absent
  pending,                        \* cache notifications not yet delivered
  notifySync,                     \* the cache calls its subscribers in the caller's stack
  problemStatementData,
  solutionData,
  thoughtsData,
  timeComplexityData,
  spaceComplexityData,
  debugProcessing,
  isResetting,
  extraScreenshots,
  activeSystemDesignSolutionTab,
  currentInterviewMode,
  view,                           \* the last argument of setView
  toast,                          \* the last toast shown
  hostShots,                      \* the screenshots the host holds
  apiShape,                       \* what getScreenshots resolves to
  fetches,                        \* getScreenshots requests in flight
  lastEvent,                      \* history, see Recorded
  diagram,                        \* the edges handed to getLayoutedElements
  layouted                        \* what getLayoutedElements returned

solutionFields ==
  <<solutionData, thoughtsData, timeComplexityData, spaceComplexityData>>
vars ==
  <<cache, pending, notifySync, problemStatementData, solutionData,
    thoughtsData, timeComplexityData, spaceComplexityData, debugProcessing,
    isResetting, extraScreenshots, activeSystemDesignSolutionTab,
    currentInterviewMode, view, toast, hostShots, apiShape, fetches,
    lastEvent, diagram, layouted>>
layoutVars == <<diagram, layouted>>
viewVars ==
  <<cache, pending, notifySync, problemStatementData, solutionData,
    thoughtsData, timeComplexityData, spaceComplexityData, debugProcessing,
    isResetting, extraScreenshots, activeSystemDesignSolutionTab,
    currentInterviewMode, view, toast, hostShots, apiShape, fetches,
    lastEvent>>

\* lastEvent is history, not state of the component: the last event that
\* concerns the screenshots or the solution, "reset" for onResetView,
\* "success" for an onSolutionSuccess that is not ignored, and "other" for
\* the mount, onScreenshotTaken, onSolutionStart, onSolutionError and a click
\* on a delete button.  Only the specification of the screenshots records
\* it; it stays "unrecorded" in the others.
Recorded(event) == IF lastEvent = "unrecorded" THEN lastEvent ELSE event

(***************************************************************************)
(* The query cache                                                         *)
(***************************************************************************)
\* queryClient.getQueryData([key]): undefined when there is no query.
getQueryData(c, key) == IF c[key] = Absent THEN Null ELSE c[key]

\* queryClient.setQueryData([key], data)
setQueryDataDropped(c, key, data) == c
setQueryData(c, key, data) == [c EXCEPT ![key] = data]

\* queryClient.removeQueries({queryKey: [key]})
removeQueriesKept(c, key) == c
removeQueries(c, key) == [c EXCEPT ![key] = Absent]


(***************************************************************************)
(* The cache subscriber (lines 953-972)                                    *)
(***************************************************************************)
\* What the subscriber sets for one notification of the cache c about key:
\* the local fields after it, given the fields before it.
SubscriberProblem(c, key, before) ==
  IF key = "problem_statement"
    THEN OrNull(getQueryData(c, "problem_statement"))
    ELSE before

SubscriberSolution(c, key, before) ==
  IF key = "solution"
    THEN LET solution == getQueryData(c, "solution")
         IN  <<Nullish(Field(solution, "code")),
               Nullish(Field(solution, "thoughts")),
               Nullish(Field(solution, "time_complexity")),
               Nullish(Field(solution, "space_complexity"))>>
    ELSE before

\* The cache notifies its subscribers of a change of the keys ks (in this
\* order): in the caller's stack when notifySync, later otherwise.
Notify(ks) == IF notifySync THEN pending ELSE pending \o ks
CanNotify(ks) == notifySync \/ Len(pending) + Len(ks) <= MaxPending

\* The fields after the subscriber has run for the keys ks, in the caller's
\* stack (nothing happens there when the delivery is deferred).
RECURSIVE SyncSolution(_, _, _)
SyncSolution(c, ks, before) ==
  IF ~notifySync \/ ks = <<>> THEN before
  ELSE SyncSolution(c, Tail(ks), SubscriberSolution(c, Head(ks), before))

RECURSIVE SyncProblem(_, _, _)
SyncProblem(c, ks, before) ==
  IF ~notifySync \/ ks = <<>> THEN before
  ELSE SyncProblem(c, Tail(ks), SubscriberProblem(c, Head(ks), before))

(***************************************************************************)
(* getScreenshots (lines 754-776, 805-820, 890-907)                        *)
(***************************************************************************)
\* A request in flight is either waiting for the host, [kind |-> k], or
\* answered, [set |-> s]: its continuation will call setExtraScreenshots(s).
Request(kind) == [kind |-> kind]

\* What the host resolves getScreenshots to.
HostResponse ==
  LET previews == [i \in DOMAIN hostShots |-> [path |-> hostShots[i]]]
  IN  IF apiShape = "array" THEN Arr(previews)
      ELSE Obj([previews |-> previews])

Screenshot(p) == [id |-> p.path, path |-> p.path]

\* (Array.isArray(existing) ? existing : []).map(...)
FromArray(existing) ==
  LET list == IF existing[1] = "arr" THEN existing[2] ELSE <<>>
  IN  [i \in DOMAIN list |-> Screenshot(list[i])]

\* existing.previews?.map(...) || []
FromPreviews(existing) ==
  LET list == IF IsObj(existing) /\ "previews" \in DOMAIN existing[2]
                THEN existing[2].previews ELSE <<>>
  IN  [i \in DOMAIN list |-> Screenshot(list[i])]

\* The continuation of a request of this kind once the host has resolved
\* it to existing: the argument of setExtraScreenshots.
Resolved(kind, existing) ==
  IF kind = "success" THEN FromPreviews(existing) ELSE FromArray(existing)

\* The continuation once the host has rejected it: the catch block.  The
\* handler of onScreenshotTaken only logs and handleDeleteExtraScreenshot
\* only shows a toast.
Rejected(kind) ==
  IF kind \in {"taken", "delete"} THEN {} ELSE {[set |-> <<>>]}

\* fetches is a bag: in-flight item -> how many of it.
BagAdd(b, x) ==
  IF x \in DOMAIN b THEN [b EXCEPT ![x] = @ + 1]
  ELSE [y \in DOMAIN b \cup {x} |-> IF y = x THEN 1 ELSE b[y]]
BagRemove(b, x) ==
  IF b[x] > 1 THEN [b EXCEPT ![x] = @ - 1]
  ELSE [y \in DOMAIN b \ {x} |-> b[y]]
RECURSIVE BagSize(_)
BagSize(b) ==
  IF DOMAIN b = {} THEN 0
  ELSE LET x == CHOOSE y \in DOMAIN b : TRUE
       IN  b[x] + BagSize([y \in DOMAIN b \ {x} |-> b[y]])
NoFetches == [x \in {} |-> 0]

RECURSIVE StartFetches(_, _)
StartFetches(b, kinds) ==
  IF kinds = <<>> THEN b
  ELSE StartFetches(BagAdd(b, Request(Head(kinds))), Tail(kinds))

\* The effect on [solutionData] (lines 754-776) runs after a render in which
\* solutionData has changed.
EffectFetch(before, after) == IF after # before THEN <<"effect">> ELSE <<>>

Mounted == view = "solutions"

(***************************************************************************)
(* getLayoutedElements (lines 476-602)                                     *)
(***************************************************************************)
nodeWidth == 120
nodeHeight == 60

\* Edges of one call.
MaxEdges == 4

\* The nodes of the diagram, in the order of the list handed to the
\* function; every edge joins two of them.
NodeIds == <<1, 2, 3, 4>>
NodeSet == {NodeIds[i] : i \in DOMAIN NodeIds}
\* The sources the edges may leave.
Sources == {1, 2}
\* What dagre.layout may compute for a node: the centre of its box, in one
\* of two ranks; no two nodes are put at the same place.  No offset depends
\* on the rank of a node, so of two nodes at the same x the one that comes
\* first in the list is taken to be in the upper rank.
Xs == {80, 280, 480}
Ys == {50, 210}
Layouts ==
  {pos \in [NodeSet -> [x : Xs, y : Ys]] :
     /\ \A m, n \in NodeSet : m # n => pos[m] # pos[n]
     /\ \A n \in NodeSet :
          pos[n].y = IF \E m \in NodeSet : m < n /\ pos[m].x = pos[n].x
                       THEN 210 ELSE 50}
Directions == {"TB", "LR"}

Edge(s, t) == [id |-> <<s, t>>, source |-> s, target |-> t]

\* [...fanout].sort((a, b) => a.x - b.x): the sort is stable.
RECURSIVE InsertByXBeforeEqual(_, _)
InsertByXBeforeEqual(sorted, e) ==
  IF sorted = <<>> THEN <<e>>
  ELSE IF e.x <= Head(sorted).x THEN <<e>> \o sorted
  ELSE <<Head(sorted)>> \o InsertByXBeforeEqual(Tail(sorted), e)

RECURSIVE InsertByX(_, _)
InsertByX(sorted, e) ==
  IF sorted = <<>> THEN <<e>>
  ELSE IF e.x < Head(sorted).x THEN <<e>> \o sorted
  ELSE <<Head(sorted)>> \o InsertByX(Tail(sorted), e)

RECURSIVE SortByX(_)
SortByX(list) ==
  IF list = <<>> THEN <<>>
  ELSE InsertByX(SortByX(SubSeq(list, 1, Len(list) - 1)), list[Len(list)])

\* sorted.findIndex((t) => t.targetId === target), counted from 0
findIndex(sorted, target) ==
  IF \E i \in DOMAIN sorted : sorted[i].targetId = target
    THEN (CHOOSE i \in DOMAIN sorted :
            /\ sorted[i].targetId = target
            /\ \A j \in 1..(i - 1) : sorted[j].targetId # target) - 1
    ELSE -1

\* lines 536-540: sourceToTargets[source]
Fanout(edges, pos, source) ==
  LET mine == SelectSeq(edges, LAMBDA e : e.source = source)
  IN  [i \in DOMAIN mine |-> [targetId |-> mine[i].target, x |-> pos[mine[i].target].x]]

\* lines 554-560: the offset of the edge at index in a fan-out of n edges
FanoutTransformOffByOne(index, n) ==
  IF index = 0 THEN "translate(-100px, -16px)"
  ELSE IF index = n THEN "translate(100px, -16px)"
  ELSE "translate(0px, -20px)"
FanoutTransform(index, n) ==
  IF index = 0 THEN "translate(-100px, -16px)"
  ELSE IF index = n - 1 THEN "translate(100px, -16px)"
  ELSE "translate(0px, -20px)"

\* lines 543-569: labelStyle.transform of one edge
LabelTransform(edges, pos, direction, edge) ==
  IF direction = "TB" /\ edge.source \in DOMAIN pos /\ edge.target \in DOMAIN pos
    THEN LET fanout == Fanout(edges, pos, edge.source)
         IN  IF Len(fanout) > 1
               THEN FanoutTransform(findIndex(SortByX(fanout), edge.target),
                                    Len(fanout))
               ELSE IF pos[edge.source].x < pos[edge.target].x
                      THEN "translate(-100px, -16px)"
                    ELSE IF pos[edge.source].x > pos[edge.target].x
                      THEN "translate(100px, -16px)"
                    ELSE "translate(0px, -16px)"
    ELSE "translate(0px, -16px)"

\* pos is what dagre.layout has computed for the nodes.
getLayoutedElements(nodes, edges, direction, pos) ==
  [nodes |-> [i \in DOMAIN nodes |->
                [id |-> nodes[i],
                 position |-> [x |-> pos[nodes[i]].x - nodeWidth \div 2,
                               y |-> pos[nodes[i]].y - nodeHeight \div 2]]],
   edges |-> [i \in DOMAIN edges |->
                [id |-> edges[i].id, source |-> edges[i].source,
                 target |-> edges[i].target,
                 transform |-> LabelTransform(edges, pos, direction, edges[i])]],
   direction |-> direction]

NotLayouted == [nodes |-> <<>>, edges |-> <<>>, direction |-> "none"]

(***************************************************************************)
(* The state after the first render and its effects                        *)
(***************************************************************************)
\* The component is mounted over the cache c: its first render and the
\* effects of that render.
Mount(c, sync, mode, shots, shape) ==
  /\ cache = c
  /\ pending = <<>>
  /\ notifySync = sync
     \* lines 948-951: solutionData is set to the cached solution itself
  /\ problemStatementData = OrNull(getQueryData(c, "problem_statement"))
  /\ solutionData = OrNull(getQueryData(c, "solution"))
  /\ thoughtsData = Null
  /\ timeComplexityData = Null
  /\ spaceComplexityData = Null
  /\ debugProcessing = FALSE
  /\ isResetting = FALSE
  /\ extraScreenshots = <<>>
  /\ activeSystemDesignSolutionTab = "Diagram"
  /\ currentInterviewMode = mode
  /\ view = "solutions"
  /\ toast = <<>>
  /\ hostShots = shots
  /\ apiShape = shape
     \* lines 754-776: the effect runs after the first render
  /\ fetches = StartFetches(NoFetches, <<"effect">>)
     \* line 728: the diagram is laid out once, from the static data
  /\ diagram = <<>>
  /\ layouted = NotLayouted

\* The caches the component may be mounted over.
InitialCaches ==
  { [problem_statement |-> ps, solution |-> sol, new_solution |-> Absent] :
      ps \in {Absent, Obj([problem_statement |-> "two sum"])},
      sol \in {Absent, SolFull} }
InitialShots == {<<>>} \cup {<<p>> : p \in Paths}

\* The data flow of the view in Coding mode: every bridge event, over every
\* initial cache, with the cache notifying in the caller's stack or later.
Init ==
  /\ \E c \in InitialCaches, sync \in BOOLEAN, shots \in InitialShots :
       Mount(c, sync, "Coding", shots, "array")
  /\ lastEvent = "unrecorded"

\* The view with its user: every mode, the tab bar and every bridge event.
InitView ==
  /\ \E mode \in Modes :
       Mount([k \in QueryKeys |-> Absent], TRUE, mode, <<>>, "array")
  /\ lastEvent = "unrecorded"

(***************************************************************************)
(* Bridge events (lines 804-939)                                           *)
(***************************************************************************)
\* lines 805-820.  The host has taken the screenshot p.
OnScreenshotTaken(p) ==
  /\ Mounted
  /\ p \notin {hostShots[i] : i \in DOMAIN hostShots}
  /\ BagSize(fetches) < MaxFetches
  /\ lastEvent' = Recorded("other")
  /\ hostShots' = Append(hostShots, p)
  /\ fetches' = StartFetches(fetches, <<"taken">>)
  /\ UNCHANGED <<diagram, layouted,
                 cache, pending, notifySync, problemStatementData, solutionData,
                 thoughtsData, timeComplexityData, spaceComplexityData,
                 debugProcessing, isResetting, extraScreenshots,
                 activeSystemDesignSolutionTab, currentInterviewMode, view,
                 toast, apiShape>>

\* lines 821-840.  The host sends the event when it resets; whether it has
\* dropped the screenshots it held by then (cleared) is the host's matter.
ResetView(cleared) ==
  /\ Mounted
  /\ LET removed == SelectSeq(<<"solution", "new_solution">>,
                              LAMBDA k : cache[k] # Absent)
         cache1 == removeQueries(removeQueries(cache, "solution"), "new_solution")
         after == SyncSolution(cache1, removed, solutionFields)
         started == EffectFetch(solutionData, after[1])
     IN  /\ CanNotify(removed)
         /\ BagSize(fetches) + Len(started) <= MaxFetches
         /\ isResetting' = TRUE
         /\ cache' = cache1
         /\ pending' = Notify(removed)
         /\ solutionData' = after[1]
         /\ thoughtsData' = after[2]
         /\ timeComplexityData' = after[3]
         /\ spaceComplexityData' = after[4]
         /\ extraScreenshots' = <<>>
         /\ fetches' = StartFetches(fetches, started)
  /\ hostShots' = IF cleared THEN <<>> ELSE hostShots
  /\ lastEvent' = Recorded("reset")
  /\ UNCHANGED <<diagram, layouted,
                 notifySync, problemStatementData, debugProcessing,
                 activeSystemDesignSolutionTab, currentInterviewMode, view,
                 toast, apiShape>>

OnResetView == \E cleared \in BOOLEAN : ResetView(cleared)

\* lines 836-839: the timer of onResetView
ResetTimeout ==
  /\ Mounted
  /\ isResetting
  /\ isResetting' = FALSE
  /\ UNCHANGED <<diagram, layouted, lastEvent,
                 cache, pending, notifySync, problemStatementData, solutionData,
                 thoughtsData, timeComplexityData, spaceComplexityData,
                 debugProcessing, extraScreenshots,
                 activeSystemDesignSolutionTab, currentInterviewMode, view,
                 toast, hostShots, apiShape, fetches>>

\* lines 843-846: what the four setters of onSolutionStart are called with
SolutionStartFieldsCodeOnly ==
  <<Null, thoughtsData, timeComplexityData, spaceComplexityData>>
SolutionStartFields == <<Null, Null, Null, Null>>

\* lines 841-847
OnSolutionStart ==
  /\ Mounted
  /\ LET started == EffectFetch(solutionData, SolutionStartFields[1])
     IN  /\ BagSize(fetches) + Len(started) <= MaxFetches
         /\ fetches' = StartFetches(fetches, started)
  /\ lastEvent' = Recorded("other")
  /\ solutionData' = SolutionStartFields[1]
  /\ thoughtsData' = SolutionStartFields[2]
  /\ timeComplexityData' = SolutionStartFields[3]
  /\ spaceComplexityData' = SolutionStartFields[4]
  /\ UNCHANGED <<diagram, layouted,
                 cache, pending, notifySync, problemStatementData,
                 debugProcessing, isResetting, extraScreenshots,
                 activeSystemDesignSolutionTab, currentInterviewMode, view,
                 toast, hostShots, apiShape>>

\* lines 848-850
OnProblemExtracted(data) ==
  /\ Mounted
  /\ CanNotify(<<"problem_statement">>)
  /\ cache' = setQueryData(cache, "problem_statement", data)
  /\ pending' = Notify(<<"problem_statement">>)
  /\ problemStatementData' =
       SyncProblem(cache', <<"problem_statement">>, problemStatementData)
  /\ UNCHANGED <<diagram, layouted, lastEvent,
                 notifySync, solutionData, thoughtsData, timeComplexityData,
                 spaceComplexityData, debugProcessing, isResetting,
                 extraScreenshots, activeSystemDesignSolutionTab,
                 currentInterviewMode, view, toast, hostShots, apiShape, fetches>>

\* lines 852-869
SolutionErrorViewStays(solution) == view
SolutionErrorView(solution) == IF ~Truthy(solution) THEN "queue" ELSE view

OnSolutionError(error) ==
  /\ Mounted
  /\ lastEvent' = Recorded("other")
  /\ toast' = <<"Processing Failed", error, "error">>
  /\ LET solution == getQueryData(cache, "solution")
         started == EffectFetch(solutionData, OrNull(Field(solution, "code")))
     IN  /\ BagSize(fetches) + Len(started) <= MaxFetches
         /\ view' = SolutionErrorView(solution)
         /\ solutionData' = OrNull(Field(solution, "code"))
         /\ thoughtsData' = OrNull(Field(solution, "thoughts"))
         /\ timeComplexityData' = OrNull(Field(solution, "time_complexity"))
         /\ spaceComplexityData' = OrNull(Field(solution, "space_complexity"))
         /\ fetches' = StartFetches(fetches, started)
  /\ UNCHANGED <<diagram, layouted,
                 cache, pending, notifySync, problemStatementData,
                 debugProcessing, isResetting, extraScreenshots,
                 activeSystemDesignSolutionTab, currentInterviewMode,
                 hostShots, apiShape>>

\* lines 871-908.  The setters of the handler run after the subscriber when
\* the cache notifies in the caller's stack, and before it otherwise.
SuccessIgnoredNullOnly(data) == data = Null
SuccessIgnored(data) == ~Truthy(data)

\* lines 877-882: the object the handler stores
SolutionOfWhole(data) == data
SolutionOf(data) ==
  Sol(Field(data, "code"), Field(data, "thoughts"),
      Field(data, "time_complexity"), Field(data, "space_complexity"))

OnSolutionSuccess(data) ==
  /\ Mounted
  /\ IF SuccessIgnored(data)
       THEN UNCHANGED vars
       ELSE LET sol == SolutionOf(data)
                started == EffectFetch(solutionData, OrNull(Field(sol, "code")))
                             \o <<"success">>
            IN  /\ CanNotify(<<"solution">>)
                /\ BagSize(fetches) + Len(started) <= MaxFetches
                /\ cache' = setQueryData(cache, "solution", sol)
                /\ pending' = Notify(<<"solution">>)
                /\ solutionData' = OrNull(Field(sol, "code"))
                /\ thoughtsData' = OrNull(Field(sol, "thoughts"))
                /\ timeComplexityData' = OrNull(Field(sol, "time_complexity"))
                /\ spaceComplexityData' = OrNull(Field(sol, "space_complexity"))
                /\ fetches' = StartFetches(fetches, started)
                /\ lastEvent' = Recorded("success")
                /\ UNCHANGED <<diagram, layouted,
                               notifySync,
                               problemStatementData, debugProcessing,
                               isResetting, extraScreenshots,
                               activeSystemDesignSolutionTab,
                               currentInterviewMode, view, toast, hostShots,
                               apiShape>>

\* lines 913-916
OnDebugStart ==
  /\ Mounted
  /\ debugProcessing' = TRUE
  /\ UNCHANGED <<diagram, layouted, lastEvent,
                 cache, pending, notifySync, problemStatementData, solutionData,
                 thoughtsData, timeComplexityData, spaceComplexityData,
                 isResetting, extraScreenshots, activeSystemDesignSolutionTab,
                 currentInterviewMode, view, toast, hostShots, apiShape, fetches>>

\* lines 918-921.  The subscriber ignores the key new_solution.
OnDebugSuccess(data) ==
  /\ Mounted
  /\ CanNotify(<<"new_solution">>)
  /\ cache' = setQueryData(cache, "new_solution", data)
  /\ pending' = Notify(<<"new_solution">>)
  /\ debugProcessing' = FALSE
  /\ UNCHANGED <<diagram, layouted, lastEvent,
                 notifySync, problemStatementData, solutionData, thoughtsData,
                 timeComplexityData, spaceComplexityData, isResetting,
                 extraScreenshots, activeSystemDesignSolutionTab,
                 currentInterviewMode, view, toast, hostShots, apiShape, fetches>>

\* lines 923-930
DebugErrorProcessingKept == debugProcessing
DebugErrorProcessing == FALSE

OnDebugError ==
  /\ Mounted
  /\ toast' = <<"Processing Failed", "There was an error debugging your code.", "error">>
  /\ debugProcessing' = DebugErrorProcessing
  /\ UNCHANGED <<diagram, layouted, lastEvent,
                 cache, pending, notifySync, problemStatementData, solutionData,
                 thoughtsData, timeComplexityData, spaceComplexityData,
                 isResetting, extraScreenshots, activeSystemDesignSolutionTab,
                 currentInterviewMode, view, hostShots, apiShape, fetches>>

\* lines 931-937
OnProcessingNoScreenshots ==
  /\ Mounted
  /\ toast' = <<"No Screenshots", "There are no extra screenshots to process.", "neutral">>
  /\ UNCHANGED <<diagram, layouted, lastEvent,
                 cache, pending, notifySync, problemStatementData, solutionData,
                 thoughtsData, timeComplexityData, spaceComplexityData,
                 debugProcessing, isResetting, extraScreenshots,
                 activeSystemDesignSolutionTab, currentInterviewMode, view,
                 hostShots, apiShape, fetches>>

(***************************************************************************)
(* Deferred work: cache notifications and getScreenshots promises          *)
(***************************************************************************)
\* lines 953-972: the subscriber is called with the oldest notification.
ProcessNotification ==
  /\ Mounted
  /\ pending # <<>>
  /\ LET key == Head(pending)
         after == SubscriberSolution(cache, key, solutionFields)
         started == EffectFetch(solutionData, after[1])
     IN  /\ BagSize(fetches) + Len(started) <= MaxFetches
         /\ pending' = Tail(pending)
         /\ problemStatementData' = SubscriberProblem(cache, key, problemStatementData)
         /\ solutionData' = after[1]
         /\ thoughtsData' = after[2]
         /\ timeComplexityData' = after[3]
         /\ spaceComplexityData' = after[4]
         /\ fetches' = StartFetches(fetches, started)
  /\ UNCHANGED <<diagram, layouted, lastEvent,
                 cache, notifySync, debugProcessing, isResetting,
                 extraScreenshots, activeSystemDesignSolutionTab,
                 currentInterviewMode, view, toast, hostShots, apiShape>>

\* The host answers one getScreenshots request: it resolves it to the
\* screenshots it holds now, or rejects it.
HostAnswers(req, ok) ==
  /\ Mounted
  /\ req \in DOMAIN fetches
  /\ "kind" \in DOMAIN req
  /\ LET settled == IF ok THEN {[set |-> Resolved(req.kind, HostResponse)]}
                    ELSE Rejected(req.kind)
         rest == BagRemove(fetches, req)
     IN  fetches' = IF settled = {} THEN rest
                    ELSE BagAdd(rest, CHOOSE x \in settled : TRUE)
     \* lines 1005-1007
  /\ toast' = IF ~ok /\ req.kind = "delete"
                THEN <<"Error", "Failed to delete the screenshot", "error">>
                ELSE toast
  /\ UNCHANGED <<diagram, layouted, lastEvent,
                 cache, pending, notifySync, problemStatementData, solutionData,
                 thoughtsData, timeComplexityData, spaceComplexityData,
                 debugProcessing, isResetting, extraScreenshots,
                 activeSystemDesignSolutionTab, currentInterviewMode, view,
                 hostShots, apiShape>>

\* The continuation of an answered request runs: setExtraScreenshots.
FetchSettles(item) ==
  /\ Mounted
  /\ item \in DOMAIN fetches
  /\ "set" \in DOMAIN item
  /\ extraScreenshots' = item.set
  /\ fetches' = BagRemove(fetches, item)
  /\ UNCHANGED <<diagram, layouted, lastEvent,
                 cache, pending, notifySync, problemStatementData, solutionData,
                 thoughtsData, timeComplexityData, spaceComplexityData,
                 debugProcessing, isResetting,
                 activeSystemDesignSolutionTab, currentInterviewMode, view,
                 toast, hostShots, apiShape>>

(***************************************************************************)
(* The user: the mode selector and the tab bar                             *)
(***************************************************************************)
\* queryClient.getQueryData(["new_solution"]) at line 1013
ShowDebug == ~isResetting /\ Truthy(getQueryData(cache, "new_solution"))

CodingShownElse(mode) == mode # "SystemDesign"
CodingShown(mode) == mode = "Coding"
SystemDesignShown(mode) == mode = "SystemDesign"
TabContentShown(tab) == activeSystemDesignSolutionTab = tab

\* lines 1011-1176: the sections the render puts on the screen
Rendered ==
  IF ShowDebug THEN {"Debug"}
  ELSE {"SolutionCommands"}
       \cup (IF Truthy(solutionData) THEN {"ScreenshotQueue"} ELSE {})
       \cup (IF ~Truthy(solutionData) /\ CodingShown(currentInterviewMode)
               THEN {"Problem Statement"} ELSE {})
       \cup (IF Truthy(solutionData) /\ CodingShown(currentInterviewMode)
               THEN {"My Thoughts", "Solution", "Complexity"} ELSE {})
       \cup (IF SystemDesignShown(currentInterviewMode) THEN {"TabBar"} ELSE {})
       \cup {"Tab " \o t : t \in {u \in TabSet :
                SystemDesignShown(currentInterviewMode) /\ TabContentShown(u)}}

\* line 1117: a click on a button of the tab bar
ClickedTabLabel(tab) == IF tab = "Database Schema" THEN "Schema" ELSE tab
ClickedTab(tab) == tab

TabClick(tab) ==
  /\ Mounted
  /\ "TabBar" \in Rendered
  /\ activeSystemDesignSolutionTab' = ClickedTab(tab)
  /\ UNCHANGED <<diagram, layouted, lastEvent,
                 cache, pending, notifySync, problemStatementData, solutionData,
                 thoughtsData, timeComplexityData, spaceComplexityData,
                 debugProcessing, isResetting, extraScreenshots,
                 currentInterviewMode, view, toast, hostShots, apiShape, fetches>>

\* lines 1192-1211: InterviewModeSelector.handleModeChange; updateConfig may
\* reject, and then the mode stays.
handleModeChange(newInterviewMode, saved) ==
  /\ Mounted
  /\ currentInterviewMode' = IF saved THEN newInterviewMode ELSE currentInterviewMode
  /\ UNCHANGED <<diagram, layouted, lastEvent,
                 cache, pending, notifySync, problemStatementData, solutionData,
                 thoughtsData, timeComplexityData, spaceComplexityData,
                 debugProcessing, isResetting, extraScreenshots,
                 activeSystemDesignSolutionTab, view, toast, hostShots,
                 apiShape, fetches>>

\* lines 981-1009: a click on the delete button of the screenshot at index
\* (counted from 1 here) of the ScreenshotQueue, at the moment the host has
\* answered deleteScreenshot: with success, and then the screenshots are
\* fetched again, or without.
handleDeleteExtraScreenshot(index, success) ==
  /\ Mounted
  /\ "ScreenshotQueue" \in Rendered
  /\ index \in DOMAIN extraScreenshots
  /\ IF success
       THEN /\ BagSize(fetches) < MaxFetches
            /\ hostShots' = SelectSeq(hostShots,
                               LAMBDA p : p # extraScreenshots[index].path)
            /\ fetches' = StartFetches(fetches, <<"delete">>)
            /\ UNCHANGED toast
       ELSE /\ toast' = <<"Error", "Failed to delete the screenshot", "error">>
            /\ UNCHANGED <<hostShots, fetches>>
  /\ lastEvent' = Recorded("other")
  /\ UNCHANGED <<diagram, layouted,
                 cache, pending, notifySync, problemStatementData, solutionData,
                 thoughtsData, timeComplexityData, spaceComplexityData,
                 debugProcessing, isResetting, extraScreenshots,
                 activeSystemDesignSolutionTab, currentInterviewMode, view,
                 apiShape>>

BridgeEvent ==
  \/ \E p \in Paths : OnScreenshotTaken(p)
  \/ OnResetView
  \/ OnSolutionStart
  \/ \E data \in ProblemInputs : OnProblemExtracted(data)
  \/ \E error \in ErrorInputs : OnSolutionError(error)
  \/ \E data \in SolutionInputs : OnSolutionSuccess(data)
  \/ OnDebugStart
  \/ \E data \in DebugInputs : OnDebugSuccess(data)
  \/ OnDebugError
  \/ OnProcessingNoScreenshots

Deferred ==
  \/ ResetTimeout
  \/ \E req \in DOMAIN fetches, ok \in BOOLEAN : HostAnswers(req, ok)
  \/ \E item \in DOMAIN fetches : FetchSettles(item)

UserAction ==
  \/ \E tab \in TabSet : TabClick(tab)
  \/ \E m \in {"Coding", "SystemDesign"}, saved \in BOOLEAN : handleModeChange(m, saved)

Next == BridgeEvent \/ Deferred \/ ProcessNotification

Spec == Init /\ [][Next]_vars

\* The cache of the view specification notifies in the caller's stack, so no
\* notification ever waits and ProcessNotification has nothing to take.
NextView == BridgeEvent \/ Deferred \/ UserAction

SpecView == InitView /\ [][NextView]_vars

\* The screenshots: getScreenshots resolves to an array or to an object with
\* previews, the host has dropped its screenshots when it sends the reset
\* and resolves every request, and the user may delete a screenshot.
ApiShapes == {"array", "object"}

InitShots ==
  /\ \E c \in InitialCaches, sync \in BOOLEAN, shots \in InitialShots,
        shape \in ApiShapes :
       Mount(c, sync, "Coding", shots, shape)
  /\ lastEvent = "other"

NextShots ==
  \/ \E p \in Paths : OnScreenshotTaken(p)
  \/ ResetView(TRUE)
  \/ OnSolutionStart
  \/ \E data \in ProblemInputs : OnProblemExtracted(data)
  \/ \E error \in ErrorInputs : OnSolutionError(error)
  \/ \E data \in SolutionInputs : OnSolutionSuccess(data)
  \/ OnDebugStart
  \/ \E data \in DebugInputs : OnDebugSuccess(data)
  \/ OnDebugError
  \/ OnProcessingNoScreenshots
  \/ \E index \in 1..Cardinality(Paths), success \in BOOLEAN :
       handleDeleteExtraScreenshot(index, success)
  \/ ResetTimeout
  \/ ProcessNotification
  \/ \E req \in DOMAIN fetches : HostAnswers(req, TRUE)
  \/ \E item \in DOMAIN fetches : FetchSettles(item)

SpecShots == InitShots /\ [][NextShots]_vars

(***************************************************************************)
(* The diagram: edges are collected and laid out                           *)
(***************************************************************************)
AddEdge(s, t) ==
  /\ layouted = NotLayouted
  /\ Len(diagram) < MaxEdges
  /\ \A i \in DOMAIN diagram : diagram[i].id # <<s, t>>
  /\ diagram' = Append(diagram, Edge(s, t))
  /\ UNCHANGED <<layouted, viewVars>>

Layout(direction, pos) ==
  /\ layouted = NotLayouted
  /\ layouted' = getLayoutedElements(NodeIds, diagram, direction, pos)
  /\ UNCHANGED <<diagram, viewVars>>

InitLayout ==
  /\ Mount([k \in QueryKeys |-> Absent], TRUE, "SystemDesign", <<>>, "array")
  /\ lastEvent = "unrecorded"

NextLayout ==
  \/ \E s \in Sources, t \in NodeSet : AddEdge(s, t)
  \/ \E direction \in Directions, pos \in Layouts : Layout(direction, pos)

SpecLayout == InitLayout /\ [][NextLayout]_vars

(***************************************************************************)
(* Properties of the data flow                                             *)
(***************************************************************************)
NoSolutionFields == <<Null, Null, Null, Null>>

\* The local solution fields are those of the solution in the cache, and
\* null when the cache holds none.
CacheSolutionShown ==
  IF cache["solution"] = Absent
    THEN solutionFields = NoSolutionFields
    ELSE /\ solutionData = cache["solution"][2].code
         /\ thoughtsData = cache["solution"][2].thoughts
         /\ timeComplexityData = cache["solution"][2].time_complexity
         /\ spaceComplexityData = cache["solution"][2].space_complexity

\* The subscriber has just run for a notification about key.
SubscriberRan(key) ==
  \/ ProcessNotification /\ Head(pending) = key
  \/ notifySync /\ OnResetView /\ cache[key] # Absent

ProblemStatementPushed ==
  /\ [][\A data \in ProblemInputs :
          OnProblemExtracted(data) =>
            /\ cache'["problem_statement"] = data
            /\ \A k \in QueryKeys \ {"problem_statement"} : cache'[k] = cache[k]
            /\ UNCHANGED solutionFields
            /\ notifySync =>
                 problemStatementData' = IF Truthy(data) THEN data ELSE Null]_vars
  /\ [][ProcessNotification /\ Head(pending) = "problem_statement" =>
          problemStatementData' =
            IF Truthy(cache'["problem_statement"])
              THEN cache'["problem_statement"] ELSE Null]_vars

\* Empty data has replaced a problem statement, and the view shows none.
ProblemStatementWitness ==
  /\ cache["problem_statement"] = Null
  /\ pending = <<>>
  /\ problemStatementData = Null
  /\ cache["solution"] # Absent

\* C3: onResetView leaves no "solution" and no "new_solution" in the cache,
\* empties extraScreenshots and keeps "problem_statement"; whenever the
\* cache holds no solution and no notification about it is waiting, the
\* four solution fields are null.
ResetClearsSolution ==
  /\ [][OnResetView =>
          /\ cache'["solution"] = Absent
          /\ cache'["new_solution"] = Absent
          /\ cache'["problem_statement"] = cache["problem_statement"]
          /\ extraScreenshots' = <<>>
          /\ notifySync => solutionFields' = NoSolutionFields]_vars
  /\ [](cache["solution"] = Absent
          /\ (\A i \in DOMAIN pending : pending[i] # "solution")
        => solutionFields = NoSolutionFields)

\* The reset has removed a cached solution that the view still shows: the
\* notification of the removal is waiting.
ResetWitness ==
  /\ isResetting
  /\ cache["solution"] = Absent
  /\ pending = <<"solution">>
  /\ solutionData = Str("code")
  /\ extraScreenshots = <<>>
  /\ cache["problem_statement"] # Absent

\* The three error events: onSolutionError, onDebugError and
\* onProcessingNoScreenshots.
ErrorToast ==
  \/ \E error \in ErrorInputs : OnSolutionError(error)
  \/ OnDebugError
  \/ OnProcessingNoScreenshots

\* C4 as stated: the three error events leave the cache, the selected view,
\* the local solution fields and debugProcessing as they are.
ErrorToastsCosmetic ==
  [][ErrorToast => UNCHANGED <<cache, view, solutionFields, debugProcessing>>]_vars

\* C4 amended: none of the three error events changes the query cache;
\* onProcessingNoScreenshots changes nothing but the toast, onDebugError
\* also sets debugProcessing to false, and onSolutionError also sets the
\* local solution fields and calls setView("queue") exactly when the cache
\* holds no solution.
ErrorToastEffects ==
  [][/\ ErrorToast => UNCHANGED <<cache, pending, problemStatementData,
                                  extraScreenshots, isResetting>>
     /\ OnProcessingNoScreenshots =>
          UNCHANGED <<view, solutionFields, debugProcessing, fetches>>
     /\ OnDebugError =>
          /\ debugProcessing' = FALSE
          /\ UNCHANGED <<view, solutionFields, fetches>>
     /\ (\E error \in ErrorInputs : OnSolutionError(error)) =>
          /\ UNCHANGED debugProcessing
          /\ (view' = "queue") <=> (cache["solution"] = Absent)]_vars

\* onSolutionError has sent the user back to the queue.
ErrorToastWitness ==
  /\ view = "queue"
  /\ toast = <<"Processing Failed", "timeout", "error">>
  /\ cache["solution"] = Absent
  /\ debugProcessing

\* A field as the view shows it when what is missing or empty shows as null.
EmptyAsNull(v) == IF v \in {Null, Str(""), Arr(<<>>)} THEN Null ELSE v
\* The same, an empty array of thoughts being kept.
EmptyStringAsNull(v) == IF v \in {Null, Str("")} THEN Null ELSE v

CachedField(f) == Field(getQueryData(cache, "solution"), f)

\* C8 as stated: after onSolutionError the four fields are those of the
\* cached solution, null for every missing or empty one, and setView("queue")
\* is called exactly when the cache holds no solution.
SolutionErrorRestoresNonEmpty ==
  [][\A error \in ErrorInputs :
       OnSolutionError(error) =>
         /\ solutionData' = EmptyAsNull(CachedField("code"))
         /\ thoughtsData' = EmptyAsNull(CachedField("thoughts"))
         /\ timeComplexityData' = EmptyAsNull(CachedField("time_complexity"))
         /\ spaceComplexityData' = EmptyAsNull(CachedField("space_complexity"))
         /\ (view' = "queue") <=> (cache["solution"] = Absent)]_vars

\* C8 amended: the same, null standing for a missing field and for an empty
\* string; an empty array of thoughts is kept as it is.
SolutionErrorRestoresCached ==
  [][\A error \in ErrorInputs :
       OnSolutionError(error) =>
         /\ solutionData' = EmptyStringAsNull(CachedField("code"))
         /\ thoughtsData' = EmptyStringAsNull(CachedField("thoughts"))
         /\ timeComplexityData' = EmptyStringAsNull(CachedField("time_complexity"))
         /\ spaceComplexityData' = EmptyStringAsNull(CachedField("space_complexity"))
         /\ (view' = "queue") <=> (cache["solution"] = Absent)]_vars

\* After onSolutionStart had nulled the fields, onSolutionError has restored
\* them from a cached solution with empty fields.
SolutionErrorWitness ==
  /\ view = "solutions"
  /\ toast = <<"Processing Failed", "timeout", "error">>
  /\ cache["solution"] = SolEdge
  /\ pending = <<>>
  /\ solutionData = Null
  /\ thoughtsData = Arr(<<>>)
  /\ spaceComplexityData = Null

\* The entry "solution" holds exactly the four fields of data.
StoresFourFields(data) ==
  /\ IsObj(cache["solution"])
  /\ DOMAIN cache["solution"][2] = FieldNames
  /\ \A f \in FieldNames : cache["solution"][2][f] = Field(data, f)

\* C9 as stated: after onSolutionSuccess(data) with data that is not empty
\* the cache holds the four fields of data and the local fields equal them,
\* whether the setters of the handler or those of the subscriber come last.
SuccessShowsData ==
  /\ [][\A data \in SolutionInputs :
          OnSolutionSuccess(data) /\ Truthy(data) =>
            /\ StoresFourFields(data)'
            /\ notifySync => CacheSolutionShown']_vars
  /\ [][SubscriberRan("solution") => CacheSolutionShown']_vars

\* The local fields are those of the cached solution wherever they are not
\* empty; a missing or empty field shows as null.
CacheSolutionShownOrNull ==
  /\ solutionData = EmptyStringAsNull(CachedField("code"))
  /\ thoughtsData = EmptyStringAsNull(CachedField("thoughts"))
  /\ timeComplexityData = EmptyStringAsNull(CachedField("time_complexity"))
  /\ spaceComplexityData = EmptyStringAsNull(CachedField("space_complexity"))

\* C9 amended: after onSolutionSuccess(data) with data that is not empty the
\* cache holds the four fields of data; a local field equals the field of
\* data when that is not empty, is null when it is missing, and for an empty
\* string it is null after the setters of the handler and the empty string
\* after those of the subscriber.
SuccessShowsNonEmptyData ==
  /\ [][\A data \in SolutionInputs :
          OnSolutionSuccess(data) /\ Truthy(data) =>
            StoresFourFields(data)' /\ CacheSolutionShownOrNull']_vars
  /\ [][SubscriberRan("solution") /\ cache'["solution"] # Absent =>
          CacheSolutionShown']_vars

\* A solution has been stored and is shown, its screenshots being fetched.
SuccessWitness ==
  /\ notifySync
  /\ cache["solution"] = SolFull
  /\ solutionFields = <<Str("code"), Arr(<<"idea">>), Str("O(n)"), Str("O(1)")>>
  /\ [kind |-> "success"] \in DOMAIN fetches
  /\ cache["problem_statement"] = Null

\* C10: onSolutionSuccess with data that is null or empty changes nothing:
\* not the cache, not the local state, and no getScreenshots request starts.
EmptySolutionIgnored ==
  [][\A data \in SolutionInputs :
       OnSolutionSuccess(data) /\ ~Truthy(data) => UNCHANGED vars]_vars

\* A state with a solution and screenshots on the screen in which the event
\* may arrive with empty data.
EmptySolutionWitness ==
  /\ cache["solution"] = SolEdge
  /\ Len(extraScreenshots) > 0
  /\ fetches = NoFetches
  /\ ENABLED OnSolutionSuccess(Str(""))

\* C11: onSolutionStart sets solutionData, thoughtsData, timeComplexityData
\* and spaceComplexityData to null and leaves the query cache (a cached
\* solution included), problemStatementData, extraScreenshots and
\* debugProcessing as they are.
SolutionStartResetsViewOnly ==
  [][OnSolutionStart =>
       /\ solutionFields' = NoSolutionFields
       /\ UNCHANGED <<cache, problemStatementData, extraScreenshots,
                      debugProcessing>>]_vars

\* Processing has started again over a cached solution: the view shows no
\* solution, the cache still holds it, and the problem statement, the
\* screenshots and the debug loader are still there.
SolutionStartWitness ==
  /\ notifySync
  /\ cache["solution"] = SolFull
  /\ solutionFields = NoSolutionFields
  /\ problemStatementData # Null
  /\ Len(extraScreenshots) > 0
  /\ debugProcessing

(***************************************************************************)
(* Properties of the screenshots                                           *)
(***************************************************************************)
\* One entry for each screenshot the host holds now, its id and its path
\* being the path of the screenshot.
HostScreenshots ==
  [i \in DOMAIN hostShots |-> [id |-> hostShots[i], path |-> hostShots[i]]]

\* C12 as stated: after an onSolutionSuccess with data that is not empty
\* (and before the next reset, screenshot or solution event), whenever no
\* getScreenshots request is in flight, every one having been resolved in
\* some order, extraScreenshots has exactly one entry for each screenshot
\* the host holds, with its id and its path.
LatestScreenshotsAfterSuccess ==
  lastEvent = "success" /\ fetches = NoFetches =>
    extraScreenshots = HostScreenshots

\* C13 as stated: after an onResetView, and until the next onScreenshotTaken,
\* delete of a screenshot or solution event, extraScreenshots is empty, also
\* when a getScreenshots request started before the reset is resolved
\* after it.
ResetNotUndoneByFetch ==
  lastEvent = "reset" => extraScreenshots = <<>>

(***************************************************************************)
(* Properties of the render                                                *)
(***************************************************************************)
CodingSections == {"Problem Statement", "My Thoughts", "Solution", "Complexity"}
TabContents == {"Tab " \o t : t \in TabSet}
SystemDesignSections == {"TabBar"} \cup TabContents

\* C5: when the Debug view is not shown, Coding sections are on the screen
\* only in mode "Coding" and the tab bar and tab contents only in mode
\* "SystemDesign"; in any other mode neither is.
EitherCodingOrSystemDesign ==
  ~ShowDebug =>
    /\ Rendered \cap CodingSections # {} => currentInterviewMode = "Coding"
    /\ Rendered \cap SystemDesignSections # {} =>
         currentInterviewMode = "SystemDesign"
    /\ currentInterviewMode \notin {"Coding", "SystemDesign"} =>
         Rendered \cap (CodingSections \cup SystemDesignSections) = {}

\* A solution has arrived in a mode that is neither of the two.
EitherWitness ==
  /\ currentInterviewMode = "Behavioral"
  /\ Truthy(solutionData)
  /\ ~ShowDebug
  /\ Rendered = {"SolutionCommands", "ScreenshotQueue"}

TabsShown ==
  /\ activeSystemDesignSolutionTab \in TabSet
  /\ currentInterviewMode = "SystemDesign" /\ ~ShowDebug =>
       Rendered \cap TabContents = {"Tab " \o activeSystemDesignSolutionTab}

\* C6: the active tab starts as "Diagram" and is always one of the five
\* TABS; in mode "SystemDesign" the Solutions view shows exactly the content
\* of the active tab; a step that changes the active tab is a click on the
\* tab bar: no change of mode, no bridge event and no deferred work is one.
SystemDesignTabs ==
  /\ activeSystemDesignSolutionTab = "Diagram"
  /\ TabsShown
  /\ [][TabsShown']_vars
  /\ [][activeSystemDesignSolutionTab' # activeSystemDesignSolutionTab =>
          /\ \E tab \in TabSet : TabClick(tab)
          /\ UNCHANGED <<currentInterviewMode, cache, toast, solutionFields>>]_vars

\* Another tab is active while solutions and toasts have come in.
TabsWitness ==
  /\ currentInterviewMode = "SystemDesign"
  /\ activeSystemDesignSolutionTab = "Database Schema"
  /\ cache["solution"] = SolFull
  /\ toast # <<>>
  /\ Rendered \cap TabContents = {"Tab Database Schema"}

(***************************************************************************)
(* Properties of getLayoutedElements                                       *)
(***************************************************************************)
\* The edges of the result that leave source.
Outgoing(source) ==
  {i \in DOMAIN layouted.edges : layouted.edges[i].source = source}

DistinctOffsets(source) ==
  \A i, j \in Outgoing(source) :
    i # j => layouted.edges[i].transform # layouted.edges[j].transform

\* C7 as stated: for direction "TB", no two edges that leave the same source
\* get the same label offset.
FanoutOffsetsDistinct ==
  layouted.direction = "TB" => \A s \in NodeSet : DistinctOffsets(s)

\* C7 amended: for direction "TB", no two of the edges that leave a source
\* with two or three outgoing edges (to different targets, all of them nodes
\* of the list) get the same label offset.
SmallFanoutOffsetsDistinct ==
  layouted.direction = "TB" =>
    \A s \in NodeSet : Cardinality(Outgoing(s)) \in {2, 3} => DistinctOffsets(s)

\* A fan-out of three whose targets are not all at different x.
FanoutWitness ==
  /\ layouted.direction = "TB"
  /\ Cardinality(Outgoing(1)) = 3
  /\ Cardinality(Outgoing(2)) = 1
  /\ \E i, j \in Outgoing(1) :
       /\ i # j
       /\ layouted.nodes[layouted.edges[i].target].position.x
            = layouted.nodes[layouted.edges[j].target].position.x

\* The layout x of a node of the result (the left edge of its box: the
\* order of two nodes by it is their order by the x of dagre).
NodeX(id) ==
  LET k == CHOOSE n \in DOMAIN layouted.nodes : layouted.nodes[n].id = id
  IN  layouted.nodes[k].position.x
TargetX(i) == NodeX(layouted.edges[i].target)
SourceX(i) == NodeX(layouted.edges[i].source)

\* The edges of the result that leave the source of edge i.
Siblings(i) == Outgoing(layouted.edges[i].source)

\* The offset of an edge that is the only one to leave its source.
SingleOffset(i) ==
  IF SourceX(i) < TargetX(i) THEN "translate(-100px, -16px)"
  ELSE IF SourceX(i) > TargetX(i) THEN "translate(100px, -16px)"
  ELSE "translate(0px, -16px)"

\* The offset by the x of the targets alone: leftmost, rightmost, otherwise.
OffsetByX(i) ==
  IF \A j \in Siblings(i) : TargetX(i) <= TargetX(j)
    THEN "translate(-100px, -16px)"
  ELSE IF \A j \in Siblings(i) : TargetX(i) >= TargetX(j)
    THEN "translate(100px, -16px)"
  ELSE "translate(0px, -20px)"

\* How many edges of the same source come before edge i when they are put in
\* order by the x of their targets, edges with the same x in the order of
\* the edge list.
Rank(i) ==
  Cardinality({j \in Siblings(i) :
                 \/ TargetX(j) < TargetX(i)
                 \/ TargetX(j) = TargetX(i) /\ j < i})

OffsetByRank(i) ==
  IF Rank(i) = 0 THEN "translate(-100px, -16px)"
  ELSE IF Rank(i) = Cardinality(Siblings(i)) - 1 THEN "translate(100px, -16px)"
  ELSE "translate(0px, -20px)"

\* The result has the nodes and the edges of the input: same ids, same
\* count, same order.
KeepsInputs ==
  /\ Len(layouted.nodes) = Len(NodeIds)
  /\ \A k \in DOMAIN NodeIds : layouted.nodes[k].id = NodeIds[k]
  /\ Len(layouted.edges) = Len(diagram)
  /\ \A i \in DOMAIN diagram :
       /\ layouted.edges[i].id = diagram[i].id
       /\ layouted.edges[i].source = diagram[i].source
       /\ layouted.edges[i].target = diagram[i].target

\* C14 as stated: for direction "TB" an edge whose source has several
\* outgoing edges gets (-100,-16) if its target is the leftmost target of
\* that source by layout x, (100,-16) if it is the rightmost and (0,-20)
\* otherwise; an edge that is alone at its source gets (-100,-16), (100,-16)
\* or (0,-16) as the source is left of, right of or at the x of the target;
\* for any other direction every edge gets (0,-16); nodes and edges keep the
\* ids, count and order of the inputs.
LabelOffsetRule ==
  layouted # NotLayouted =>
    /\ KeepsInputs
    /\ \A i \in DOMAIN layouted.edges :
         layouted.edges[i].transform =
           IF layouted.direction # "TB" THEN "translate(0px, -16px)"
           ELSE IF Cardinality(Siblings(i)) > 1 THEN OffsetByX(i)
           ELSE SingleOffset(i)

\* C14 amended: the same, leftmost and rightmost being the first and the
\* last of the source's edges in the order by the x of their targets, in
\* which edges whose targets have the same x keep the order of the edge
\* list (every edge joining two nodes of the list, no two edges joining the
\* same two nodes).
LabelOffsetRuleByRank ==
  layouted # NotLayouted =>
    /\ KeepsInputs
    /\ \A i \in DOMAIN layouted.edges :
         layouted.edges[i].transform =
           IF layouted.direction # "TB" THEN "translate(0px, -16px)"
           ELSE IF Cardinality(Siblings(i)) > 1 THEN OffsetByRank(i)
           ELSE SingleOffset(i)

\* Two of the three targets of a source are at the same x and get different
\* offsets, and an edge that is alone at its source has its target below it.
LabelOffsetWitness ==
  /\ layouted.direction = "TB"
  /\ \E i, j \in DOMAIN layouted.edges :
       /\ i < j
       /\ j \in Siblings(i)
       /\ Cardinality(Siblings(i)) = 3
       /\ TargetX(i) = TargetX(j)
       /\ layouted.edges[i].transform = "translate(-100px, -16px)"
       /\ layouted.edges[j].transform = "translate(0px, -20px)"
  /\ \E i \in DOMAIN layouted.edges :
       /\ Siblings(i) = {i}
       /\ layouted.edges[i].transform = "translate(0px, -16px)"
=============================================================================
